---- MODULE Spec2Model ----
(***************************************************************************)
(* Model of GeneratePrompt.py: the recursive directory walk               *)
(* (build_directory_tree_local), the content loader                       *)
(* (get_local_file_content) and the document assembler                    *)
(* (retrieve_local_repo_info).                                            *)
(*                                                                         *)
(* A Python str is modelled as a sequence of atoms.  An atom is a single  *)
(* character (file names, paths, file contents), or one of the fixed      *)
(* pieces newline, indent unit, code fence and the literal phrases        *)
(* the code writes (section headers, placeholders).  String               *)
(* concatenation is \o, so the document is built exactly as the code      *)
(* builds it and has to be parsed again to say anything about it.         *)
(***************************************************************************)
EXTENDS Integers, Sequences, FiniteSets, TLC

----------------------------------------------------------------------------
(* Bounds of the model *)

MaxEntries == 3

MaxFaults == 1

----------------------------------------------------------------------------
(* Atoms *)

NL == "\n"

INDENT == "    "

\* the three backquotes that open and close a fenced block
FENCE == "<fence>"

SEP == "/"

UpperCase ==
    << "A", "B", "C", "D", "E", "F", "G", "H", "I", "J", "K", "L", "M",
       "N", "O", "P", "Q", "R", "S", "T", "U", "V", "W", "X", "Y", "Z" >>

LowerCase ==
    << "a", "b", "c", "d", "e", "f", "g", "h", "i", "j", "k", "l", "m",
       "n", "o", "p", "q", "r", "s", "t", "u", "v", "w", "x", "y", "z" >>

Digits == << "0", "1", "2", "3", "4", "5", "6", "7", "8", "9" >>

IndexOf(c, tbl) == CHOOSE i \in DOMAIN tbl : tbl[i] = c

InSeq(x, seq) == \E i \in DOMAIN seq : seq[i] = x

\* ord(c) of the characters that occur in names
CodePoint(c) ==
    IF InSeq(c, UpperCase) THEN 64 + IndexOf(c, UpperCase)
    ELSE IF InSeq(c, LowerCase) THEN 96 + IndexOf(c, LowerCase)
    ELSE IF InSeq(c, Digits) THEN 47 + IndexOf(c, Digits)
    ELSE IF c = "-" THEN 45
    ELSE IF c = "." THEN 46
    ELSE IF c = "/" THEN 47
    ELSE IF c = "_" THEN 95
    ELSE 0

\* str.lower() on one character
LowerChar(c) ==
    IF InSeq(c, UpperCase) THEN LowerCase[IndexOf(c, UpperCase)] ELSE c

\* str.lower()
ToLower(s) == [i \in DOMAIN s |-> LowerChar(s[i])]

\* a < b for two Python str (lexicographic by code point)
RECURSIVE StrLess(_, _)
StrLess(a, b) ==
    IF a = <<>> THEN b # <<>>
    ELSE IF b = <<>> THEN FALSE
    ELSE IF CodePoint(Head(a)) < CodePoint(Head(b)) THEN TRUE
    ELSE IF CodePoint(Head(a)) > CodePoint(Head(b)) THEN FALSE
    ELSE StrLess(Tail(a), Tail(b))

\* s.split(sep) of a short text, one character after the other
RECURSIVE SplitAcc(_, _, _)
SplitAcc(s, sep, cur) ==
    IF s = <<>> THEN << cur >>
    ELSE IF Head(s) = sep THEN << cur >> \o SplitAcc(Tail(s), sep, <<>>)
    ELSE SplitAcc(Tail(s), sep, Append(cur, Head(s)))

\* the parts of a text from the parts of its two halves: the last part of
\* the left half and the first part of the right half are one part
JoinHalves(l, r) ==
    SubSeq(l, 1, Len(l) - 1) \o << l[Len(l)] \o r[1] >> \o SubSeq(r, 2, Len(r))

\* s.split(sep) for a one-character separator; a long text is split by
\* halves, which keeps the recursion shallow
RECURSIVE Split(_, _)
Split(s, sep) ==
    IF Len(s) <= 32 THEN SplitAcc(s, sep, <<>>)
    ELSE JoinHalves(Split(SubSeq(s, 1, Len(s) \div 2), sep),
                    Split(SubSeq(s, Len(s) \div 2 + 1, Len(s)), sep))

\* s.endswith(suffix)
EndsWith(s, suffix) ==
    /\ Len(suffix) <= Len(s)
    /\ SubSeq(s, Len(s) - Len(suffix) + 1, Len(s)) = suffix

\* s.endswith(tuple_of_suffixes)
EndsWithAny(s, suffixes) == \E i \in DOMAIN suffixes : EndsWith(s, suffixes[i])

\* the indent unit repeated n times
RECURSIVE Indent(_)
Indent(n) == IF n <= 0 THEN <<>> ELSE << INDENT >> \o Indent(n - 1)

\* "".join(list_of_str)
RECURSIVE JoinAll(_)
JoinAll(parts) == IF parts = <<>> THEN <<>> ELSE Head(parts) \o JoinAll(Tail(parts))

\* sep.join(list_of_str)
RECURSIVE JoinWith(_, _)
JoinWith(parts, sep) ==
    IF parts = <<>> THEN <<>>
    ELSE IF Len(parts) = 1 THEN parts[1]
    ELSE parts[1] \o << sep >> \o JoinWith(Tail(parts), sep)

----------------------------------------------------------------------------
(* Module constants of GeneratePrompt.py *)

IGNORE_PATTERNS ==
    { <<"t", "a", "r", "g", "e", "t">>,
      <<".", "g", "i", "t">>,
      <<".", "g", "i", "t", "h", "u", "b">>,
      <<".", "i", "d", "e", "a">>,
      <<"n", "o", "d", "e", "_", "m", "o", "d", "u", "l", "e", "s">>,
      <<".", "m", "2">>,
      <<"_", "_", "p", "y", "c", "a", "c", "h", "e", "_", "_">>,
      <<"b", "u", "i", "l", "d">>,
      <<"d", "i", "s", "t">>,
      <<"o", "u", "t">> }

RELEVANT_ENDINGS ==
    << <<".", "j", "a", "v", "a">>,
       <<".", "j", "s", "p">>,
       <<".", "k", "t">>,
       <<".", "g", "r", "o", "o", "v", "y">>,
       <<".", "j", "s">>,
       <<".", "j", "s", "x">>,
       <<".", "x", "m", "l">>,
       <<".", "p", "r", "o", "p", "e", "r", "t", "i", "e", "s">>,
       <<".", "y", "m", "l">>,
       <<".", "y", "a", "m", "l">>,
       <<".", "j", "s", "o", "n">>,
       <<".", "t", "o", "m", "l">>,
       <<".", "g", "r", "a", "d", "l", "e">>,
       <<".", "m", "v", "n">>,
       <<".", "g", "i", "t", "i", "g", "n", "o", "r", "e">>,
       <<".", "m", "d">>,
       <<".", "m", "d">>,
       <<".", "a", "d", "o", "c">>,
       <<".", "r", "s", "t">> >>

SPECIAL_BUILD_FILES ==
    { <<"p", "o", "m", ".", "x", "m", "l">>,
      <<"b", "u", "i", "l", "d", ".", "g", "r", "a", "d", "l", "e">>,
      <<"s", "e", "t", "t", "i", "n", "g", "s", ".", "g", "r", "a", "d", "l", "e">>,
      <<"D", "o", "c", "k", "e", "r", "f", "i", "l", "e">>,
      <<"d", "o", "c", "k", "e", "r", "-", "c", "o", "m", "p", "o", "s", "e", ".", "y", "m", "l">>,
      <<"d", "o", "c", "k", "e", "r", "-", "c", "o", "m", "p", "o", "s", "e", ".", "y", "a", "m", "l">> }

----------------------------------------------------------------------------
(* Names used to build the directory trees the walk is run on *)

README_md == <<"R", "E", "A", "D", "M", "E", ".", "m", "d">>

README_MD == <<"R", "E", "A", "D", "M", "E", ".", "M", "D">>

pom_xml == <<"p", "o", "m", ".", "x", "m", "l">>

notes_txt == <<"n", "o", "t", "e", "s", ".", "t", "x", "t">>

src == <<"s", "r", "c">>

Main_java == <<"M", "a", "i", "n", ".", "j", "a", "v", "a">>

test == <<"t", "e", "s", "t">>

FooTest_java == <<"F", "o", "o", "T", "e", "s", "t", ".", "j", "a", "v", "a">>

Dockerfile == <<"D", "o", "c", "k", "e", "r", "f", "i", "l", "e">>

target == <<"t", "a", "r", "g", "e", "t">>

Gen_java == <<"G", "e", "n", ".", "j", "a", "v", "a">>

subtarget == <<"s", "u", "b", "t", "a", "r", "g", "e", "t">>

App_kt == <<"A", "p", "p", ".", "k", "t">>

Test == <<"T", "e", "s", "t">>

out == <<"o", "u", "t">>

proj == <<"p", "r", "o", "j">>

build_proj == <<"b", "u", "i", "l", "d", "/", "p", "r", "o", "j">>

Test_proj == <<"T", "e", "s", "t", "/", "p", "r", "o", "j">>

Hi == <<"H", "i">>

----------------------------------------------------------------------------
(* State *)

VARIABLES
    base_path,          \* argument of retrieve_local_repo_info
    fs,                 \* the file system: path |-> [kind, err, content]
    pc,                 \* "readme", "walk", "render", "done" or "raised"
    formatted_string,   \* the document under construction
    stack,              \* activations of build_directory_tree_local
    file_paths,         \* the shared list of (indent, full_path, kind)
    directory_tree,     \* tree_str returned by the outermost activation
    idx,                \* position of the loop over file_paths
    build_section,
    source_section,
    test_section

vars ==
    << base_path, fs, pc, formatted_string, stack, file_paths, directory_tree,
       idx, build_section, source_section, test_section >>

----------------------------------------------------------------------------
(* The os functions the program calls, evaluated on fs *)

\* os.path.join(a, b) for a name b that holds no separator
os_path_join(a, b) ==
    IF a = <<>> THEN b
    ELSE IF a[Len(a)] = SEP THEN a \o b
    ELSE a \o << SEP >> \o b

\* os.path.exists
os_path_exists(path) == path \in DOMAIN fs

\* os.path.isdir
os_path_isdir(path) == path \in DOMAIN fs /\ fs[path].kind = "dir"

\* the names os.listdir(path) returns, in no particular order
os_listdir(path) ==
    { n \in { Split(q, SEP)[Len(Split(q, SEP))] : q \in DOMAIN fs } :
        os_path_join(path, n) \in DOMAIN fs }

\* what os.listdir(path) does: "ok" or the exception it raises
os_listdir_outcome(path) ==
    IF path \notin DOMAIN fs THEN "FileNotFoundError"
    ELSE IF fs[path].kind # "dir" THEN "NotADirectoryError"
    ELSE IF fs[path].err # "none" THEN fs[path].err
    ELSE "ok"

NonEmptyParts(parts) == SelectSeq(parts, LAMBDA x : x # <<>>)

RECURSIVE CommonPrefixLen(_, _)
CommonPrefixLen(a, b) ==
    IF a = <<>> \/ b = <<>> THEN 0
    ELSE IF Head(a) # Head(b) THEN 0
    ELSE 1 + CommonPrefixLen(Tail(a), Tail(b))

\* the path is used as it is, not made relative to start
os_path_relpath_unchanged(path, start) == path

\* os.path.relpath(path, start); both are made absolute against the same
\* working directory, whose segments are common to both and cancel
os_path_relpath(path, start) ==
    LET start_list == NonEmptyParts(Split(start, SEP))
        path_list == NonEmptyParts(Split(path, SEP))
        i == CommonPrefixLen(start_list, path_list)
        rel_list == [k \in 1..(Len(start_list) - i) |-> << ".", "." >>]
                    \o SubSeq(path_list, i + 1, Len(path_list))
    IN  IF rel_list = <<>> THEN << "." >> ELSE JoinWith(rel_list, SEP)

----------------------------------------------------------------------------
(* The pure parts of GeneratePrompt.py *)

\* the entries in descending order
RECURSIVE sort_descending(_)
sort_descending(entries) ==
    IF entries = {} THEN <<>>
    ELSE LET m == CHOOSE x \in entries : \A y \in entries \ {x} : StrLess(y, x)
         IN  << m >> \o sort_descending(entries \ {m})

\* entries.sort()
RECURSIVE sort(_)
sort(entries) ==
    IF entries = {} THEN <<>>
    ELSE LET m == CHOOSE x \in entries : \A y \in entries \ {x} : StrLess(x, y)
         IN  << m >> \o sort(entries \ {m})

\* a pattern is looked for as a substring of the path, not as a segment
should_ignore_substring(full_path) ==
    \E pattern \in IGNORE_PATTERNS : \E i \in DOMAIN full_path :
        /\ i + Len(pattern) - 1 <= Len(full_path)
        /\ SubSeq(full_path, i, i + Len(pattern) - 1) = pattern

\* only the segments below the root are looked at
should_ignore_below_root(full_path) ==
    LET segments == Split(os_path_relpath(full_path, base_path), SEP)
    IN  \E pattern \in IGNORE_PATTERNS : InSeq(pattern, segments)

\* should_ignore of build_directory_tree_local
should_ignore(full_path) ==
    LET segments == Split(full_path, SEP)
    IN  \E pattern \in IGNORE_PATTERNS : InSeq(pattern, segments)

\* the test segment is looked at before the special filenames
file_record_test_first(indent, entry, full_path) ==
    IF entry \notin SPECIAL_BUILD_FILES /\ ~ EndsWithAny(entry, RELEVANT_ENDINGS)
    THEN <<>>
    ELSE IF InSeq(test, Split(ToLower(full_path), SEP))
    THEN << << indent, full_path, "TEST" >> >>
    ELSE IF entry \in SPECIAL_BUILD_FILES
    THEN << << indent, full_path, "BUILD_CONFIG" >> >>
    ELSE << << indent, full_path, "SOURCE" >> >>

\* the records the file branch of the loop appends for one entry
file_record(indent, entry, full_path) ==
    IF entry \in SPECIAL_BUILD_FILES
    THEN << << indent, full_path, "BUILD_CONFIG" >> >>
    ELSE IF EndsWithAny(entry, RELEVANT_ENDINGS)
    THEN IF InSeq(test, Split(ToLower(full_path), SEP))
         THEN << << indent, full_path, "TEST" >> >>
         ELSE << << indent, full_path, "SOURCE" >> >>
    ELSE <<>>

\* the line the walk writes for a directory
dir_line(indent, entry) == Indent(indent) \o << "[" >> \o entry \o << "/", "]", NL >>

\* the line the walk writes for a file
file_line(indent, entry) == Indent(indent) \o entry \o << NL >>

\* get_local_file_content
get_local_file_content(file_path) ==
    IF file_path \notin DOMAIN fs
    THEN << "Error reading file: ", "[Errno 2] No such file or directory" >>
    ELSE IF fs[file_path].kind = "dir"
    THEN << "Error reading file: ", "[Errno 21] Is a directory" >>
    ELSE IF fs[file_path].err = "UnicodeDecodeError"
    THEN << "Binary or non-UTF8 file, cannot display text content." >>
    ELSE IF fs[file_path].err # "none"
    THEN << "Error reading file: ", "[Errno 13] Permission denied" >>
    ELSE fs[file_path].content

\* the README block of retrieve_local_repo_info; found is 0 when the loop
\* ended without break, else the position of the name that exists
readme_block(found, possible_readme, readme_content) ==
    IF found # 0 /\ readme_content # <<>>
    THEN possible_readme \o << ":", NL, FENCE, NL >> \o readme_content
         \o << NL, FENCE, NL, NL >>
    ELSE << "README.md: Not found!", NL, NL >>

\* the fences are written without indentation
snippet_fence_unindented(indent, relative_path, file_content) ==
    << NL >> \o Indent(indent) \o relative_path \o << ":", NL >>
    \o << FENCE, NL >> \o file_content \o << NL >> \o << FENCE, NL >>

\* snippet of retrieve_local_repo_info
snippet(indent, relative_path, file_content) ==
    << NL >> \o Indent(indent) \o relative_path \o << ":", NL >>
    \o Indent(indent) \o << FENCE, NL >> \o file_content \o << NL >>
    \o Indent(indent) \o << FENCE, NL >>

\* every header is written, whether its section is empty or not
sections_unconditional(build, source, tests) ==
    << NL, "=== Build & Config Files ===", NL >> \o JoinAll(build)
    \o << NL, "=== Source Files ===", NL >> \o JoinAll(source)
    \o << NL, "=== Test Files ===", NL >> \o JoinAll(tests)

\* the three conditional sections that end retrieve_local_repo_info
sections(build, source, tests) ==
    (IF build # <<>>
     THEN << NL, "=== Build & Config Files ===", NL >> \o JoinAll(build)
     ELSE <<>>)
    \o (IF source # <<>>
        THEN << NL, "=== Source Files ===", NL >> \o JoinAll(source)
        ELSE <<>>)
    \o (IF tests # <<>>
        THEN << NL, "=== Test Files ===", NL >> \o JoinAll(tests)
        ELSE <<>>)

----------------------------------------------------------------------------
(* The directory trees the program is run on *)

File(rel) == [rel |-> rel, kind |-> "file"]

Dir(rel) == [rel |-> rel, kind |-> "dir"]

RootEntry == Dir(<<>>)

\* the entries a tree below the root is drawn from
Candidates ==
    { File(<< README_md >>), File(<< README_MD >>), File(<< pom_xml >>),
      File(<< notes_txt >>),
      Dir(<< Test >>), File(<< Test, App_kt >>), File(<< Test, Dockerfile >>),
      Dir(<< target >>),
      Dir(<< subtarget >>), File(<< subtarget, Main_java >>) }

\* the tree of the end-to-end scenario
ScenarioShape ==
    { File(<< README_md >>), File(<< pom_xml >>),
      Dir(<< src >>), File(<< src, Main_java >>),
      Dir(<< src, test >>), File(<< src, test, FooTest_java >>),
      Dir(<< target >>), File(<< target, Gen_java >>) }

\* the root paths the caller passes
RootPaths == { proj, build_proj, Test_proj }

FullPath(root, rel) == JoinWith(<< root >> \o rel, SEP)

\* a set of entries is a tree when every entry lies in a directory of the set
IsTree(S) ==
    \A c \in S : Len(c.rel) > 1 =>
        Dir(SubSeq(c.rel, 1, Len(c.rel) - 1)) \in S

Shapes ==
    { S \in SUBSET Candidates : Cardinality(S) <= MaxEntries /\ IsTree(S) }

\* what an entry can be other than a listable directory or a readable file
\* with content Hi
VariantsOf(kind) ==
    IF kind = "dir"
    THEN { [err |-> e, content |-> <<>>] :
             e \in { "PermissionError", "NotADirectoryError", "FileNotFoundError" } }
    ELSE { [err |-> "UnicodeDecodeError", content |-> Hi],
           [err |-> "PermissionError", content |-> Hi],
           [err |-> "none", content |-> <<>>] }

Deviations(S) ==
    UNION { { f \in [B -> VariantsOf("dir") \cup VariantsOf("file")] :
                \A c \in B : f[c] \in VariantsOf(c.kind) } :
            B \in { B \in SUBSET (S \cup { RootEntry }) :
                      Cardinality(B) <= MaxFaults } }

MkFs(root, S, dev) ==
    [ p \in { FullPath(root, c.rel) : c \in S \cup { RootEntry } } |->
        LET c == CHOOSE c \in S \cup { RootEntry } : FullPath(root, c.rel) = p
        IN  IF c \in DOMAIN dev
            THEN [kind |-> c.kind, err |-> dev[c].err, content |-> dev[c].content]
            ELSE [kind |-> c.kind, err |-> "none",
                  content |-> IF c.kind = "file" THEN Hi ELSE <<>>] ]

Start(root, S, dev) ==
    /\ base_path = root
    /\ fs = MkFs(root, S, dev)
    /\ pc = "readme"
    /\ formatted_string = <<>>
    /\ stack = <<>>
    /\ file_paths = <<>>
    /\ directory_tree = <<>>
    /\ idx = 0
    /\ build_section = <<>>
    /\ source_section = <<>>
    /\ test_section = <<>>

\* the trees of at most MaxEntries entries under the root proj, each with
\* at most MaxFaults entries that cannot be listed or read or are empty;
\* the same trees, sound, under the other root paths; the scenario tree
Init ==
    \/ \E S \in Shapes : \E dev \in Deviations(S) : Start(proj, S, dev)
    \/ \E root \in RootPaths \ { proj }, S \in Shapes : Start(root, S, << >>)
    \/ \E dev \in Deviations(ScenarioShape) : Start(proj, ScenarioShape, dev)

----------------------------------------------------------------------------
(* retrieve_local_repo_info, lines 115-126: the README block *)

ReadReadme ==
    /\ pc = "readme"
    /\ LET p1 == os_path_join(base_path, README_md)
           p2 == os_path_join(base_path, README_MD)
           found == IF os_path_exists(p1) THEN 1
                    ELSE IF os_path_exists(p2) THEN 2 ELSE 0
           possible_readme == IF found = 1 THEN README_md ELSE README_MD
           readme_content ==
               IF found = 0 THEN <<>>
               ELSE get_local_file_content(os_path_join(base_path, possible_readme))
       IN  formatted_string' = readme_block(found, possible_readme, readme_content)
    /\ stack' = << [path |-> base_path, indent |-> 0, entries |-> <<>>,
                    tree_str |-> <<>>, phase |-> "listdir"] >>
    /\ pc' = "walk"
    /\ UNCHANGED << base_path, fs, file_paths, directory_tree, idx,
                    build_section, source_section, test_section >>

----------------------------------------------------------------------------
(* build_directory_tree_local *)

Top == stack[Len(stack)]

\* "return tree, file_paths" of the top activation: the caller appends the
\* subtree (line 74); the outermost caller is retrieve_local_repo_info,
\* which goes on with lines 129-136
Return(tree) ==
    IF Len(stack) = 1
    THEN /\ stack' = <<>>
         /\ directory_tree' = tree
         /\ formatted_string' =
                formatted_string \o << "Directory Structure:", NL >> \o tree \o << NL >>
         /\ pc' = "render"
         /\ idx' = 1
         /\ build_section' = <<>>
         /\ source_section' = <<>>
         /\ test_section' = <<>>
         /\ UNCHANGED << base_path, fs, file_paths >>
    ELSE /\ stack' = [ SubSeq(stack, 1, Len(stack) - 1)
                         EXCEPT ![Len(stack) - 1].tree_str = @ \o tree ]
         /\ UNCHANGED << base_path, fs, pc, formatted_string, file_paths,
                         directory_tree, idx, build_section, source_section,
                         test_section >>

\* lines 57-62: the listing succeeds and is sorted
ListDirOk ==
    /\ pc = "walk" /\ stack # <<>> /\ Top.phase = "listdir"
    /\ os_listdir_outcome(Top.path) = "ok"
    /\ stack' = [stack EXCEPT ![Len(stack)].entries = sort(os_listdir(Top.path)),
                              ![Len(stack)].phase = "loop"]
    /\ UNCHANGED << base_path, fs, pc, formatted_string, file_paths,
                    directory_tree, idx, build_section, source_section,
                    test_section >>

\* lines 59-60: the two exceptions the walk catches
ListDirCaught ==
    /\ pc = "walk" /\ stack # <<>> /\ Top.phase = "listdir"
    /\ os_listdir_outcome(Top.path) \in { "NotADirectoryError", "PermissionError" }
    /\ Return(<<>>)

\* line 58: any other exception of os.listdir leaves every caller
ListDirRaises ==
    /\ pc = "walk" /\ stack # <<>> /\ Top.phase = "listdir"
    /\ os_listdir_outcome(Top.path) \notin { "ok", "NotADirectoryError", "PermissionError" }
    /\ pc' = "raised"
    /\ UNCHANGED << base_path, fs, formatted_string, stack, file_paths,
                    directory_tree, idx, build_section, source_section,
                    test_section >>

InLoop == pc = "walk" /\ stack # <<>> /\ Top.phase = "loop" /\ Top.entries # <<>>

CurrentEntry == Head(Top.entries)

CurrentPath == os_path_join(Top.path, CurrentEntry)

\* lines 67-69: continue
SkipIgnored ==
    /\ InLoop
    /\ should_ignore(CurrentPath)
    /\ stack' = [stack EXCEPT ![Len(stack)].entries = Tail(@)]
    /\ UNCHANGED << base_path, fs, pc, formatted_string, file_paths,
                    directory_tree, idx, build_section, source_section,
                    test_section >>

\* lines 71-73: the directory line and the recursive call
VisitDir ==
    /\ InLoop
    /\ ~ should_ignore(CurrentPath)
    /\ os_path_isdir(CurrentPath)
    /\ stack' = Append(
          [stack EXCEPT ![Len(stack)].entries = Tail(@),
                        ![Len(stack)].tree_str = @ \o dir_line(Top.indent, CurrentEntry)],
          [path |-> CurrentPath, indent |-> Top.indent + 1, entries |-> <<>>,
           tree_str |-> <<>>, phase |-> "listdir"])
    /\ UNCHANGED << base_path, fs, pc, formatted_string, file_paths,
                    directory_tree, idx, build_section, source_section,
                    test_section >>

\* lines 75-91: the file line and the record
VisitFile ==
    /\ InLoop
    /\ ~ should_ignore(CurrentPath)
    /\ ~ os_path_isdir(CurrentPath)
    /\ stack' = [stack EXCEPT ![Len(stack)].entries = Tail(@),
                              ![Len(stack)].tree_str = @ \o file_line(Top.indent, CurrentEntry)]
    /\ file_paths' = file_paths \o file_record(Top.indent, CurrentEntry, CurrentPath)
    /\ UNCHANGED << base_path, fs, pc, formatted_string, directory_tree, idx,
                    build_section, source_section, test_section >>

\* line 93: the loop is over
LoopDone ==
    /\ pc = "walk" /\ stack # <<>> /\ Top.phase = "loop" /\ Top.entries = <<>>
    /\ Return(Top.tree_str)

----------------------------------------------------------------------------
(* retrieve_local_repo_info, lines 138-166 *)

\* the elif for TEST is missing: a TEST record falls to the else branch
section_of_without_test(kind) ==
    IF kind = "BUILD_CONFIG" THEN "build" ELSE "source"

\* lines 146-151: the section a record goes to
section_of(kind) ==
    IF kind = "BUILD_CONFIG" THEN "build"
    ELSE IF kind = "TEST" THEN "test"
    ELSE "source"

\* one turn of the loop of lines 138-151
RenderSnippet ==
    /\ pc = "render" /\ idx <= Len(file_paths)
    /\ LET indent == file_paths[idx][1]
           path == file_paths[idx][2]
           kind == file_paths[idx][3]
           file_content == get_local_file_content(path)
           relative_path == os_path_relpath(path, base_path)
           sn == snippet(indent, relative_path, file_content)
       IN  /\ build_section' = IF section_of(kind) = "build"
                               THEN Append(build_section, sn) ELSE build_section
           /\ test_section' = IF section_of(kind) = "test"
                              THEN Append(test_section, sn) ELSE test_section
           /\ source_section' = IF section_of(kind) = "source"
                                THEN Append(source_section, sn) ELSE source_section
    /\ idx' = idx + 1
    /\ UNCHANGED << base_path, fs, pc, formatted_string, stack, file_paths,
                    directory_tree >>

\* lines 153-166
EmitSections ==
    /\ pc = "render" /\ idx > Len(file_paths)
    /\ formatted_string' =
           formatted_string \o sections(build_section, source_section, test_section)
    /\ pc' = "done"
    /\ UNCHANGED << base_path, fs, stack, file_paths, directory_tree, idx,
                    build_section, source_section, test_section >>

Next ==
    \/ ReadReadme
    \/ ListDirOk
    \/ ListDirCaught
    \/ ListDirRaises
    \/ SkipIgnored
    \/ VisitDir
    \/ VisitFile
    \/ LoopDone
    \/ RenderSnippet
    \/ EmitSections

Spec == Init /\ [][Next]_vars

TypeOK == pc \in { "readme", "walk", "render", "done", "raised" }

----------------------------------------------------------------------------
(* Reading the file system and the tree text, for the properties.         *)
(* Nothing below is used by the actions.                                  *)

WalkReturned == pc \in { "render", "done" }

Segments(path) == Split(path, SEP)

LastOf(seq) == seq[Len(seq)]

\* the segments of a path of fs that lie below the root
RelOf(path) == SubSeq(Segments(path), Len(Segments(base_path)) + 1, Len(Segments(path)))

ParentOf(path) == JoinWith(SubSeq(Segments(path), 1, Len(Segments(path)) - 1), SEP)

Listable(path) == fs[path].kind = "dir" /\ fs[path].err = "none"

HasIgnoredSegment(segs) == \E i \in DOMAIN segs : segs[i] \in IGNORE_PATTERNS

HasTestSegment(segs) == \E i \in DOMAIN segs : ToLower(segs[i]) = test

\* every directory from the root down to the entry can be listed, and no
\* segment of the entry's path is an ignore pattern
RECURSIVE Reached(_)
Reached(path) ==
    /\ path # base_path
    /\ ~ HasIgnoredSegment(Segments(path))
    /\ Listable(ParentOf(path))
    /\ ParentOf(path) = base_path \/ Reached(ParentOf(path))

IsRelevantName(name) ==
    \/ name \in SPECIAL_BUILD_FILES
    \/ \E i \in DOMAIN RELEVANT_ENDINGS :
         /\ Len(name) >= Len(RELEVANT_ENDINGS[i])
         /\ \A k \in DOMAIN RELEVANT_ENDINGS[i] :
              name[Len(name) - Len(RELEVANT_ENDINGS[i]) + k] = RELEVANT_ENDINGS[i][k]

ClassOf(path) ==
    IF LastOf(Segments(path)) \in SPECIAL_BUILD_FILES THEN "BUILD_CONFIG"
    ELSE IF HasTestSegment(Segments(path)) THEN "TEST"
    ELSE "SOURCE"

RecordsOf(path) == { i \in DOMAIN file_paths : file_paths[i][2] = path }

\* the lines of a text that ends every line with a newline
LinesOf(text) ==
    LET parts == Split(text, NL) IN SubSeq(parts, 1, Len(parts) - 1)

RECURSIVE LeadingIndents(_)
LeadingIndents(line) ==
    IF line # <<>> /\ Head(line) = INDENT THEN 1 + LeadingIndents(Tail(line)) ELSE 0

Body(line) == SubSeq(line, LeadingIndents(line) + 1, Len(line))

IsDirLine(line) ==
    LET b == Body(line)
    IN  Len(b) >= 3 /\ b[1] = "[" /\ b[Len(b) - 1] = "/" /\ b[Len(b)] = "]"

LineName(line) ==
    IF IsDirLine(line) THEN SubSeq(Body(line), 2, Len(Body(line)) - 2) ELSE Body(line)

SetMax(S) == CHOOSE x \in S : \A y \in S : y <= x

\* the line of the directory a tree line lies in: the nearest line above it
\* that is indented one unit less; 0 for a line at the root, -1 if none
ParentLine(T, k) ==
    IF LeadingIndents(T[k]) = 0 THEN 0
    ELSE LET above == { j \in 1..(k - 1) : LeadingIndents(T[j]) = LeadingIndents(T[k]) - 1 }
         IN  IF above = {} THEN -1 ELSE SetMax(above)

\* the names from the root down to the entry of line k
RECURSIVE LinePath(_, _)
LinePath(T, k) ==
    IF k <= 0 THEN <<>> ELSE LinePath(T, ParentLine(T, k)) \o << LineName(T[k]) >>

\* for every tree line, the names from the root down to its entry
TreePaths(T) == [k \in DOMAIN T |-> LinePath(T, k)]

\* the tree lines that show the entry with the given segments below the
\* root, P being the paths of the tree lines
LinesFor(P, rel) == { k \in DOMAIN P : P[k] = rel }

----------------------------------------------------------------------------
(* C1 *)

\* C1: the list the walk returns holds exactly one record for each relevant
\* file that is reached (not ignored, below listable directories), and no
\* record for anything else; the record of a special filename is
\* BUILD_CONFIG even under a directory named test, otherwise TEST if some
\* path segment equals "test" ignoring case, otherwise SOURCE.
C1_RecordsAreTheRelevantFiles ==
    WalkReturned =>
        /\ \A p \in DOMAIN fs :
             (fs[p].kind = "file" /\ Reached(p) /\ IsRelevantName(LastOf(Segments(p))))
                => Cardinality(RecordsOf(p)) = 1
        /\ \A i \in DOMAIN file_paths :
             LET p == file_paths[i][2]
             IN  /\ p \in DOMAIN fs
                 /\ fs[p].kind = "file"
                 /\ Reached(p)
                 /\ IsRelevantName(LastOf(Segments(p)))
                 /\ file_paths[i][3] = ClassOf(p)

\* a special filename under a directory named Test is recorded as
\* BUILD_CONFIG next to a TEST record
C1_Witness ==
    /\ WalkReturned
    /\ \E i \in DOMAIN file_paths :
         /\ file_paths[i][3] = "BUILD_CONFIG"
         /\ HasTestSegment(RelOf(file_paths[i][2]))
    /\ \E i \in DOMAIN file_paths : file_paths[i][3] = "TEST"

----------------------------------------------------------------------------
(* C2 *)

\* C2: an entry below the root whose own name, or the name of a directory
\* above it below the root, is a member of the ignore set has no tree line
\* and no record; an entry that is reached (its name may hold a pattern as a
\* substring, like subtarget) has exactly one tree line of its kind.
C2_IgnoreIsPerSegmentAndExact ==
    WalkReturned =>
        LET T == LinesOf(directory_tree)
            P == TreePaths(T)
        IN  \A p \in DOMAIN fs \ { base_path } :
              /\ HasIgnoredSegment(RelOf(p)) =>
                   (LinesFor(P, RelOf(p)) = {} /\ RecordsOf(p) = {})
              /\ Reached(p) =>
                   /\ Cardinality(LinesFor(P, RelOf(p))) = 1
                   /\ \A k \in LinesFor(P, RelOf(p)) :
                        IsDirLine(T[k]) <=> fs[p].kind = "dir"

\* target is left out while the file under subtarget got its line and its
\* record
C2_Witness ==
    /\ WalkReturned
    /\ FullPath(base_path, << target >>) \in DOMAIN fs
    /\ FullPath(base_path, << subtarget, Main_java >>) \in DOMAIN fs
    /\ RecordsOf(FullPath(base_path, << subtarget, Main_java >>)) # {}
    /\ LinesFor(TreePaths(LinesOf(directory_tree)), << subtarget >>) # {}

----------------------------------------------------------------------------
(* C6 *)

\* C6: the tree text is the depth-first pre-order of the reached entries
\* with the names of each directory ascending: every line lies below a
\* directory line (or at the root) and shows an entry of the file system,
\* two lines of the same directory are in ascending order of name, and two
\* records are in the order of their tree lines.
C6_WalkOrder ==
    WalkReturned =>
        LET T == LinesOf(directory_tree)
            P == TreePaths(T)
        IN  /\ \A k \in DOMAIN T :
                 /\ ParentLine(T, k) >= 0
                 /\ ParentLine(T, k) > 0 => IsDirLine(T[ParentLine(T, k)])
                 /\ k > 1 => LeadingIndents(T[k]) <= LeadingIndents(T[k - 1]) + 1
                 /\ LeadingIndents(T[k]) > 0 =>
                      \A j \in ParentLine(T, k)..k :
                        j > ParentLine(T, k) => LeadingIndents(T[j]) >= LeadingIndents(T[k])
                 /\ FullPath(base_path, P[k]) \in DOMAIN fs
            /\ \A j, k \in DOMAIN T :
                 (j < k /\ ParentLine(T, j) = ParentLine(T, k))
                    => StrLess(LineName(T[j]), LineName(T[k]))
            /\ \A i, j \in DOMAIN file_paths :
                 i < j =>
                   \E k, l \in DOMAIN T :
                     /\ k < l
                     /\ P[k] = RelOf(file_paths[i][2])
                     /\ P[l] = RelOf(file_paths[j][2])

\* at the root a directory is listed between two recorded files
C6_Witness ==
    /\ WalkReturned
    /\ LET T == LinesOf(directory_tree)
       IN  \E j, k, l \in DOMAIN T :
             /\ j < k /\ k < l
             /\ LeadingIndents(T[j]) = 0 /\ ~ IsDirLine(T[j])
             /\ LeadingIndents(T[k]) = 0 /\ IsDirLine(T[k])
             /\ LeadingIndents(T[l]) = 0 /\ ~ IsDirLine(T[l])
             /\ RecordsOf(FullPath(base_path, LinePath(T, j))) # {}
             /\ RecordsOf(FullPath(base_path, LinePath(T, l))) # {}

----------------------------------------------------------------------------
(* C10 *)

\* C10: the ignore test and the test test see the segments of the root path:
\* under a root path with a segment in the ignore set the walk returns an
\* empty tree text and no records, and under a root path with a segment
\* equal to "test" ignoring case no record is SOURCE (a record is TEST
\* unless its name is a special filename).
C10_RootPathSegmentsCount ==
    WalkReturned =>
        /\ HasIgnoredSegment(Segments(base_path)) =>
             (directory_tree = <<>> /\ file_paths = <<>>)
        /\ HasTestSegment(Segments(base_path)) =>
             \A i \in DOMAIN file_paths :
               /\ file_paths[i][3] # "SOURCE"
               /\ file_paths[i][3] = "TEST"
                    <=> LastOf(Segments(file_paths[i][2])) \notin SPECIAL_BUILD_FILES

\* under the root Test/proj a file with no test segment below the root is
\* recorded as TEST
C10_Witness ==
    /\ WalkReturned
    /\ HasTestSegment(Segments(base_path))
    /\ \E i \in DOMAIN file_paths :
         /\ file_paths[i][3] = "TEST"
         /\ ~ HasTestSegment(RelOf(file_paths[i][2]))

\* under the root build/proj a directory that holds a relevant file yields
\* nothing
C10_WitnessIgnoredRoot ==
    /\ WalkReturned
    /\ HasIgnoredSegment(Segments(base_path))
    /\ \E p \in DOMAIN fs : p # base_path /\ IsRelevantName(LastOf(Segments(p)))

----------------------------------------------------------------------------
(* Reading the document, for the properties *)

H_BUILD == "=== Build & Config Files ==="

H_SOURCE == "=== Source Files ==="

H_TEST == "=== Test Files ==="

Headers == { H_BUILD, H_SOURCE, H_TEST }

HeaderOf(kind) ==
    IF kind = "BUILD_CONFIG" THEN H_BUILD
    ELSE IF kind = "TEST" THEN H_TEST
    ELSE H_SOURCE

Kinds == { "BUILD_CONFIG", "SOURCE", "TEST" }

StartsWith(text, prefix) ==
    Len(prefix) <= Len(text) /\ SubSeq(text, 1, Len(prefix)) = prefix

IsAt(text, pattern, i) ==
    /\ i + Len(pattern) - 1 <= Len(text)
    /\ SubSeq(text, i, i + Len(pattern) - 1) = pattern

Occurs(text, pattern) == \E i \in DOMAIN text : IsAt(text, pattern, i)

SetMin(S) == CHOOSE x \in S : \A y \in S : x <= y

\* the lines of document D that are the header h
HeaderLines(D, h) == { i \in DOMAIN D : D[i] = << h >> }

\* the lines below the header at line i, up to the blank line that
\* precedes the next header, or to the end of the document
SectionLines(D, i) ==
    LET later == { j \in DOMAIN D : j > i /\ \E h \in Headers : D[j] = << h >> }
    IN  IF later = {} THEN SubSeq(D, i + 1, Len(D))
        ELSE SubSeq(D, i + 1, SetMin(later) - 2)

Malformed ==
    << [ok |-> FALSE, path_line |-> <<>>, open |-> <<>>, content |-> <<>>,
        close |-> <<>>] >>

\* the snippets of a section: a blank line, the path line that ends with a
\* colon, the opening fence, the content lines, the closing fence
RECURSIVE ParseSnippets(_)
ParseSnippets(L) ==
    IF L = <<>> THEN <<>>
    ELSE IF Len(L) < 5 THEN Malformed
    ELSE IF \/ L[1] # <<>>
            \/ Body(L[2]) = <<>>
            \/ LastOf(L[2]) # ":"
            \/ Body(L[3]) # << FENCE >>
         THEN Malformed
    ELSE LET closing == { j \in 5..Len(L) : Body(L[j]) = << FENCE >> }
         IN  IF closing = {} THEN Malformed
             ELSE << [ok |-> TRUE, path_line |-> L[2], open |-> L[3],
                      content |-> SubSeq(L, 4, SetMin(closing) - 1),
                      close |-> L[SetMin(closing)]] >>
                  \o ParseSnippets(SubSeq(L, SetMin(closing) + 1, Len(L)))

\* the snippets below header h, none if the header is absent
SectionOf(D, h) ==
    IF HeaderLines(D, h) = {} THEN <<>>
    ELSE ParseSnippets(SectionLines(D, SetMin(HeaderLines(D, h))))

\* the path a snippet is labelled with
SnippetPath(sn) == SubSeq(Body(sn.path_line), 1, Len(Body(sn.path_line)) - 1)

SnippetPaths(sns) == [i \in DOMAIN sns |-> SnippetPath(sns[i])]

\* the path of a record relative to the root, as text
RelText(path) == JoinWith(RelOf(path), SEP)

RecordsOfKind(kind) == SelectSeq(file_paths, LAMBDA r : r[3] = kind)

\* the text is what the loader is to return for the file
IsLoadedContent(path, text) ==
    IF fs[path].err = "UnicodeDecodeError"
    THEN text = << "Binary or non-UTF8 file, cannot display text content." >>
    ELSE IF fs[path].err # "none"
    THEN text # <<>> /\ text[1] = "Error reading file: "
    ELSE text = fs[path].content

----------------------------------------------------------------------------
(* C3 *)

\* C3: no directory that cannot be listed aborts the run: whatever the
\* failure of a listing, the run goes on and returns a document.
C3_ListingFailureNeverAborts == pc # "raised"

----------------------------------------------------------------------------
(* C4 *)

\* C4: the document starts with the block of README.md if it exists, else
\* with the block of README.MD if that exists, and starts with the line
\* "README.md: Not found!" if and only if neither exists.
C4_ReadmeBlock ==
    pc # "readme" =>
        LET p1 == FullPath(base_path, << README_md >>)
            p2 == FullPath(base_path, << README_MD >>)
            block(name, p) ==
                name \o << ":", NL, FENCE, NL >> \o get_local_file_content(p)
                \o << NL, FENCE, NL, NL >>
        IN  /\ p1 \in DOMAIN fs => StartsWith(formatted_string, block(README_md, p1))
            /\ (p1 \notin DOMAIN fs /\ p2 \in DOMAIN fs)
                 => StartsWith(formatted_string, block(README_MD, p2))
            /\ StartsWith(formatted_string, << "README.md: Not found!", NL >>)
                 <=> (p1 \notin DOMAIN fs /\ p2 \notin DOMAIN fs)

----------------------------------------------------------------------------
(* C7 *)

\* C7: in the finished document a header occurs once if some record has its
\* classification and not at all otherwise, the headers that occur are in
\* the order Build & Config Files, Source Files, Test Files, and below the
\* tree block the document holds nothing but, for each classification with
\* records, the two header lines and the five lines of each snippet (every
\* file content of the model is one line long).
C7_SectionEmission ==
    pc = "done" =>
        LET D == LinesOf(formatted_string)
            n(kind) == Len(RecordsOfKind(kind))
            ds == SetMin({ i \in DOMAIN D : D[i] = << "Directory Structure:" >> })
            size(kind) == IF n(kind) = 0 THEN 0 ELSE 2 + 5 * n(kind)
        IN  /\ \A kind \in Kinds :
                 Cardinality(HeaderLines(D, HeaderOf(kind))) = IF n(kind) = 0 THEN 0 ELSE 1
            /\ \A i \in HeaderLines(D, H_BUILD), j \in HeaderLines(D, H_SOURCE) : i < j
            /\ \A i \in HeaderLines(D, H_SOURCE), j \in HeaderLines(D, H_TEST) : i < j
            /\ \A i \in HeaderLines(D, H_BUILD), j \in HeaderLines(D, H_TEST) : i < j
            /\ \A kind \in Kinds : \A i \in HeaderLines(D, HeaderOf(kind)) :
                 i > ds /\ D[i - 1] = <<>>
            /\ Len(D) = ds + Len(LinesOf(directory_tree)) + 1
                        + size("BUILD_CONFIG") + size("SOURCE") + size("TEST")

\* a finished document with source records and a test record but no
\* build record
C7_Witness ==
    /\ pc = "done"
    /\ RecordsOfKind("BUILD_CONFIG") = <<>>
    /\ RecordsOfKind("SOURCE") # <<>>
    /\ RecordsOfKind("TEST") # <<>>

----------------------------------------------------------------------------
(* C8 *)

\* C8: in the finished document the snippets below each header are, in
\* discovery order, exactly the records of that classification, each with
\* the value the loader returns for it: the text, the fixed placeholder for
\* bytes that are not UTF-8, or an "Error reading file: " placeholder.
C8_EveryRecordRenderedOnce ==
    pc = "done" =>
        LET D == LinesOf(formatted_string)
        IN  \A kind \in Kinds :
              LET sns == SectionOf(D, HeaderOf(kind))
                  recs == RecordsOfKind(kind)
              IN  /\ \A i \in DOMAIN sns : sns[i].ok
                  /\ Len(sns) = Len(recs)
                  /\ \A i \in DOMAIN sns :
                       /\ i \in DOMAIN recs
                       /\ SnippetPath(sns[i]) = RelText(recs[i][2])
                       /\ IsLoadedContent(recs[i][2], JoinWith(sns[i].content, NL))

\* a record that cannot be decoded is followed by a later record, and both
\* are rendered
C8_Witness ==
    /\ pc = "done"
    /\ \E i, j \in DOMAIN file_paths :
         /\ i < j
         /\ fs[file_paths[i][2]].err = "UnicodeDecodeError"
         /\ file_paths[i][3] = file_paths[j][3]

----------------------------------------------------------------------------
(* C9 *)

\* the snippets of the whole document
AllSnippets(D) ==
    SectionOf(D, H_BUILD) \o SectionOf(D, H_SOURCE) \o SectionOf(D, H_TEST)

\* depth of a record, indentation of its tree line and of the path line and
\* the two fence lines of its snippet agree
DepthAndFrameAgree(T, P, S, r) ==
    /\ r[1] = Len(RelOf(r[2])) - 1
    /\ \A k \in LinesFor(P, RelOf(r[2])) : LeadingIndents(T[k]) = r[1]
    /\ LinesFor(P, RelOf(r[2])) # {}
    /\ \E i \in DOMAIN S : S[i].ok /\ SnippetPath(S[i]) = RelText(r[2])
    /\ \A i \in DOMAIN S :
         (S[i].ok /\ SnippetPath(S[i]) = RelText(r[2])) =>
            /\ LeadingIndents(S[i].path_line) = r[1]
            /\ LeadingIndents(S[i].open) = r[1]
            /\ LeadingIndents(S[i].close) = r[1]

\* C9 as claimed: depth, tree indentation and the indentation of the whole
\* snippet agree, the lines of the loaded content included.
C9_WholeSnippetIndented ==
    pc = "done" =>
        LET T == LinesOf(directory_tree)
            P == TreePaths(T)
            S == AllSnippets(LinesOf(formatted_string))
        IN  \A n \in DOMAIN file_paths :
              /\ DepthAndFrameAgree(T, P, S, file_paths[n])
              /\ \A i \in DOMAIN S :
                   (S[i].ok /\ SnippetPath(S[i]) = RelText(file_paths[n][2])) =>
                      \A c \in DOMAIN S[i].content :
                        /\ LeadingIndents(S[i].content[c]) = file_paths[n][1]
                        /\ IsLoadedContent(file_paths[n][2], Body(S[i].content[c]))

\* C9 amended: depth equals the number of directories between the root and
\* the file and the indentation of the file's tree line; the path line and
\* the two fence lines of its snippet are indented by that many units, and
\* the loaded content stands between the fences as loaded, not indented.
C9_DepthAndIndentation ==
    pc = "done" =>
        LET T == LinesOf(directory_tree)
            P == TreePaths(T)
            S == AllSnippets(LinesOf(formatted_string))
        IN  \A n \in DOMAIN file_paths :
              /\ DepthAndFrameAgree(T, P, S, file_paths[n])
              /\ \A i \in DOMAIN S :
                   (S[i].ok /\ SnippetPath(S[i]) = RelText(file_paths[n][2])) =>
                      IsLoadedContent(file_paths[n][2], JoinWith(S[i].content, NL))

\* a record two directories below the root is rendered
C9_Witness ==
    /\ pc = "done"
    /\ \E n \in DOMAIN file_paths :
         file_paths[n][1] = 2 /\ fs[file_paths[n][2]].content # <<>>

----------------------------------------------------------------------------
(* C5 *)

\* the tree of the scenario with every directory listable and a readable
\* README.md that holds Hi
IsScenario ==
    /\ base_path = proj
    /\ DOMAIN fs = { FullPath(proj, c.rel) : c \in ScenarioShape \cup { RootEntry } }
    /\ \A p \in DOMAIN fs : fs[p].kind = "dir" => fs[p].err = "none"
    /\ fs[FullPath(proj, << README_md >>)].err = "none"
    /\ fs[FullPath(proj, << README_md >>)].content = Hi

\* what the scenario says of the document apart from its Source section
ScenarioFrame(D) ==
    /\ StartsWith(formatted_string,
                  README_md \o << ":", NL, FENCE, NL >> \o Hi \o << NL, FENCE, NL, NL >>)
    /\ ~ Occurs(formatted_string, target)
    /\ ~ Occurs(formatted_string, Gen_java)
    /\ \A h \in Headers : \A i \in DOMAIN SectionOf(D, h) : SectionOf(D, h)[i].ok
    /\ SnippetPaths(SectionOf(D, H_BUILD)) = << pom_xml >>
    /\ SnippetPaths(SectionOf(D, H_TEST))
         = << JoinWith(<< src, test, FooTest_java >>, SEP) >>

\* C5 as claimed: in the scenario the only snippet of the Source section is
\* src/Main.java.
C5_ScenarioSourceIsMainOnly ==
    (pc = "done" /\ IsScenario) =>
        LET D == LinesOf(formatted_string)
        IN  /\ ScenarioFrame(D)
            /\ SnippetPaths(SectionOf(D, H_SOURCE))
                 = << JoinWith(<< src, Main_java >>, SEP) >>

\* C5 amended: in the scenario the document starts with the README block
\* with Hi, target and the file under it occur nowhere, the only snippet of
\* the Build & Config section is pom.xml, the only snippet of the Test
\* section is src/test/FooTest.java, and the Source section holds the
\* snippets of README.md and src/Main.java, in that order.
C5_Scenario ==
    (pc = "done" /\ IsScenario) =>
        LET D == LinesOf(formatted_string)
        IN  /\ ScenarioFrame(D)
            /\ SnippetPaths(SectionOf(D, H_SOURCE))
                 = << README_md, JoinWith(<< src, Main_java >>, SEP) >>

\* the document of the scenario is finished
C5_Witness == pc = "done" /\ IsScenario /\ Len(file_paths) = 4

====
